---- MODULE Spec2Model ----
(***************************************************************************)
(* A model of clean-modules (src/main.go): the discovery of node_modules   *)
(* directories (findNodeModules with its sizing goroutines), the prompts   *)
(* of main, and the deletion stage (a pool of workers gated by a buffered  *)
(* channel used as a counting semaphore).                                  *)
(*                                                                         *)
(* The file system is a tree whose nodes are numbered in the order in     *)
(* which filepath.Walk visits them (pre-order, children in lexical order). *)
(* A node is a record                                                      *)
(*    parent : the node holding it (0 for the root)                        *)
(*    isDir  : info.IsDir()                                                *)
(*    name   : info.Name(), "node_modules" or "other"                      *)
(*    fault  : Lstat of the node, or the listing of the directory, fails,  *)
(*             so the WalkFunc is called for it with err != nil            *)
(*    size   : info.Size(); node n has 2^(n-1) bytes, so that every set of *)
(*             nodes has its own sum                                       *)
(***************************************************************************)
EXTENDS Integers, Sequences, FiniteSets, TLC

\* src/main.go:174
maxConcurrent == 3

\* The number of nodes of the trees findNodeModules is run on in SpecFind.
NumNodes == 5

\* The number of project directories under the root in Spec: one more than
\* the pool holds, so that a worker has to wait for a permit.
NumProjects == maxConcurrent + 1

VARIABLES
    tree,            \* the file system as found at start (never changes)
    exists,          \* the nodes that are on disk now
    walkPos,         \* findNodeModules: the node filepath.Walk visits next
    walkErr,         \* findNodeModules: what filepath.Walk returned (err)
    sizer,           \* per node: the goroutine spawned for it (pc, size)
    mutex,           \* 0 when free, else the node whose goroutine holds it
    wg,              \* the counter of the WaitGroup wg
    nodeModules,     \* the shared result list
    mainPc,          \* where main is
    dirs,            \* main: the list findNodeModules returned
    err,             \* main: the error findNodeModules returned
    selectedIndices, \* main: the indices the selection prompt returned
    confirm,         \* main: the answer of the confirmation prompt
    totalSize,       \* main: the total shown in the confirmation prompt
    worker,          \* the deletion goroutines, in spawn order (pc, dir)
    semaphore,       \* the number of elements in the channel semaphore
    deleteWg,        \* the counter of the WaitGroup deleteWg
    attempts,        \* per node: calls of os.RemoveAll on it
    deletedLines,    \* per node: "Deleted [path]" lines printed
    errorLines,      \* per node: "ERROR: failed to delete path" lines printed
    msgs,            \* the other lines main printed (on standard output)
    prompts,         \* calls of survey.AskOne
    options,         \* main: the options of the selection prompt
    shownTotal,      \* the total in the message of the confirmation prompt
    announcedTotal,  \* the total in the line "Deleting n directories"
    deletedSize,     \* per node: the size in its "Deleted [path]" line
    stderr,          \* the lines written to standard error
    bytes,           \* formatSize on its own: the argument
    formatted        \* formatSize on its own: the result

vars == <<tree, exists, walkPos, walkErr, sizer, mutex, wg,
          nodeModules, mainPc, dirs, err, selectedIndices, confirm, totalSize,
          worker,
          semaphore, deleteWg, attempts, deletedLines, errorLines, msgs,
          prompts, options, shownTotal, announcedTotal, deletedSize, stderr,
          bytes, formatted>>

findVars == <<walkPos, walkErr, sizer, mutex, wg, nodeModules>>
mainVars == <<mainPc, dirs, err, selectedIndices, confirm, totalSize, msgs,
              prompts, options, shownTotal, announcedTotal, stderr>>
poolVars == <<worker, semaphore, deleteWg, attempts, deletedLines,
              errorLines, exists, deletedSize>>
fmtVars  == <<bytes, formatted>>

----------------------------------------------------------------------------
(* The file system *)

Nodes(t) == 1..Len(t)

Pow2(n) == 2 ^ n

Node(p, d, nm, f, n) ==
    [parent |-> p, isDir |-> d, name |-> nm, fault |-> f, size |-> Pow2(n - 1)]

\* m is a or lies under a
RECURSIVE IsWithin(_, _, _)
IsWithin(t, a, m) ==
    IF m = a THEN TRUE
    ELSE IF m <= 1 THEN FALSE
    ELSE IsWithin(t, a, t[m].parent)

Subtree(t, a) == {m \in Nodes(t) : IsWithin(t, a, m)}

\* the first node after the subtree of a, in walk order
SkipPast(t, a) == a + Cardinality(Subtree(t, a))

\* (a variant of IsMatch that looks at the name alone)
IsMatchByName(t, n) == t[n].name = "node_modules"

\* what info.IsDir() && info.Name() == "node_modules" says of a node
IsMatch(t, n) == t[n].isDir /\ t[n].name = "node_modules"

----------------------------------------------------------------------------
(* The trees *)

\* The kinds of entry a tree of SpecFind is made of: a directory, a
\* directory named node_modules, a file, a file named node_modules, a
\* directory that cannot be listed and a directory named node_modules that
\* cannot be listed.
EntryKinds ==
    { [isDir |-> TRUE,  name |-> "other",        fault |-> FALSE],
      [isDir |-> TRUE,  name |-> "node_modules", fault |-> FALSE],
      [isDir |-> FALSE, name |-> "other",        fault |-> FALSE],
      [isDir |-> FALSE, name |-> "node_modules", fault |-> FALSE],
      [isDir |-> TRUE,  name |-> "other",        fault |-> TRUE],
      [isDir |-> TRUE,  name |-> "node_modules", fault |-> TRUE] }

\* p is the parent function of a tree whose nodes are numbered in pre-order:
\* the parent of n is n-1 or one of the nodes above n-1.
RECURSIVE Above(_, _, _)
Above(p, a, m) ==
    IF m = a THEN TRUE
    ELSE IF m <= 1 THEN FALSE
    ELSE Above(p, a, p[m])

PreOrder(p) ==
    /\ p[1] = 0
    /\ \A n \in 2..Len(p) : p[n] >= 1 /\ Above(p, p[n], n - 1)

Shapes(n) ==
    {p \in [1..n -> 0..(n - 1)] : PreOrder(p)}

WellFormed(t) ==
    /\ t[1].isDir
    /\ \A n \in 2..Len(t) : t[t[n].parent].isDir
    \* the names in a directory differ: one node_modules at most
    /\ \A m, n \in 2..Len(t) :
          (m # n /\ t[m].parent = t[n].parent)
             => ~(t[m].name = "node_modules" /\ t[n].name = "node_modules")

\* The tree of shape p whose node n is of kind k[n]
MkTree(p, k) ==
    [n \in 1..Len(p) |-> Node(p[n], k[n].isDir, k[n].name, k[n].fault, n)]

----------------------------------------------------------------------------
(* filepath.Walk *)

\* Where filepath.Walk goes after the WalkFunc returned ret for node n of
\* the walk rooted at root: Len(t) + 1 ends the walk.
\*   an error        : the walk stops
\*   SkipDir         : the directory n is not entered; for a file, the
\*                     rest of the directory holding it is skipped
\*   nil             : the walk goes on, into n when n is a directory that
\*                     could be listed
WalkNext(t, root, n, ret) ==
    IF ret = "err" THEN Len(t) + 1
    ELSE IF ret = "SkipDir"
        THEN IF t[n].isDir \/ t[n].fault \/ n = root
             THEN SkipPast(t, n)
             ELSE SkipPast(t, t[n].parent)
    ELSE IF t[n].isDir /\ ~t[n].fault THEN n + 1
    ELSE SkipPast(t, n)

\* What filepath.Walk returns when the WalkFunc returned ret
WalkResult(ret) == IF ret = "err" THEN "err" ELSE "nil"

----------------------------------------------------------------------------
(* calculateDirSize *)

\* (a variant of SizeWalkFn that adds the size of directories too)
SizeWalkFnAll(t, n, size) ==
    IF t[n].fault THEN [ret |-> "err", size |-> size]
    ELSE [ret |-> "nil", size |-> size + t[n].size]

\* The WalkFunc of calculateDirSize: from the size so far, the size after
\* the visit of node n and what the function returns
SizeWalkFn(t, n, size) ==
    IF t[n].fault THEN [ret |-> "err", size |-> size]
    ELSE IF ~t[n].isDir THEN [ret |-> "nil", size |-> size + t[n].size]
    ELSE [ret |-> "nil", size |-> size]

RECURSIVE SizeWalk(_, _, _, _, _)
SizeWalk(t, root, n, last, size) ==
    IF n >= last THEN [size |-> size, err |-> "nil"]
    ELSE LET r == SizeWalkFn(t, n, size)
         IN  IF r.ret = "err" THEN [size |-> r.size, err |-> "err"]
             ELSE SizeWalk(t, root, WalkNext(t, root, n, r.ret), last, r.size)

calculateDirSize(t, path) == SizeWalk(t, path, path, SkipPast(t, path), 0)

----------------------------------------------------------------------------
(* formatSize *)

(* An int64 that is not negative is the sequence of its NumLimbs digits in *)
(* base unit, the least significant first; the last digit is below 2^3.    *)

\* const unit = 1024
unit == 1024

\* the digits of an int64 in base unit: 2^63 <= unit^7
NumLimbs == 7

\* the bits of the mantissa of a float64
Mantissa == 53

RECURSIVE BitLen(_)
BitLen(x) == IF x = 0 THEN 0 ELSE 1 + BitLen(x \div 2)

\* the bits of a digit
LimbBits == BitLen(unit) - 1

IsInt64(b) == b[NumLimbs] < Pow2(63 - LimbBits * (NumLimbs - 1))

RECURSIVE Digits(_, _)
Digits(n, i) ==
    IF i > NumLimbs THEN <<>>
    ELSE <<n % unit>> \o Digits(n \div unit, i + 1)

\* int64(n), for n that is not negative
ToInt64(n) == Digits(n, 1)

\* n / unit
DivUnit(n) == [i \in 1..NumLimbs |-> IF i < NumLimbs THEN n[i + 1] ELSE 0]

\* n >= unit
GeUnit(n) == \E i \in 2..NumLimbs : n[i] > 0

\* for n := ...; n >= unit; n /= unit { div *= unit; exp++ }
RECURSIVE UnitLoop(_, _)
UnitLoop(n, exp) ==
    IF GeUnit(n) THEN UnitLoop(DivUnit(n), exp + 1) ELSE exp

\* (a variant of FormatExp whose loop starts at bytes)
FormatExpFromBytes(b) == UnitLoop(b, 0)

\* exp after the loop, which starts at bytes / unit; div is unit^(exp+1)
FormatExp(b) == UnitLoop(DivUnit(b), 0)

\* (the unit table without its last letter)
UnitLettersShort == <<"K", "M", "G", "T", "P">>

\* "KMGTPE"
UnitLetters == <<"K", "M", "G", "T", "P", "E">>

TopIndex(b) ==
    IF \A i \in 1..NumLimbs : b[i] = 0 THEN 1
    ELSE CHOOSE i \in 1..NumLimbs : b[i] > 0 /\ \A j \in (i + 1)..NumLimbs : b[j] = 0

Bits(b) == LimbBits * (TopIndex(b) - 1) + BitLen(b[TopIndex(b)])

\* b + unit^(i-1); the last digit takes the carry out of an int64
RECURSIVE Carry(_, _)
Carry(b, i) ==
    IF i = NumLimbs \/ b[i] + 1 < unit THEN [b EXCEPT ![i] = @ + 1]
    ELSE Carry([b EXCEPT ![i] = 0], i + 1)

\* float64(b): b rounded to Mantissa bits, a tie to the even mantissa
ToFloat64(b) ==
    LET s == Bits(b) - Mantissa
    IN  IF s <= 0 THEN b
        ELSE LET low  == IF s < LimbBits THEN b[1] % Pow2(s) ELSE b[1]
                 keep == IF s < LimbBits THEN b[1] \div Pow2(s) ELSE b[2]
                 half == Pow2(s - 1)
                 up   == low > half \/ (low = half /\ keep % 2 = 1)
                 cut  == [b EXCEPT ![1] = @ - low]
             IN  IF ~up THEN cut
                 ELSE IF s < LimbBits /\ cut[1] + Pow2(s) < unit
                      THEN [cut EXCEPT ![1] = @ + Pow2(s)]
                 ELSE Carry([cut EXCEPT ![1] = 0], 2)

\* ten times the fraction 0.f[k] ... f[1] (base unit): its whole part
\* (carry) and the digits of its fraction
RECURSIVE TimesTen(_, _, _, _, _)
TimesTen(f, i, k, carry, acc) ==
    IF i > k THEN [carry |-> carry, rem |-> acc]
    ELSE LET v == 10 * f[i] + carry
         IN  TimesTen(f, i + 1, k, v \div unit, Append(acc, v % unit))

\* %.1f of f / unit^k: the tenths of the quotient, rounded to the nearest,
\* a tie to the even tenth
Tenths(f, k) ==
    LET whole == f[k + 1] + (IF k + 2 <= NumLimbs THEN unit * f[k + 2] ELSE 0)
        m     == TimesTen(f, 1, k, 0, <<>>)
        low   == \E i \in 1..(k - 1) : m.rem[i] > 0
        above == m.rem[k] > unit \div 2 \/ (m.rem[k] = unit \div 2 /\ low)
        tie   == m.rem[k] = unit \div 2 /\ ~low
        t     == 10 * whole + m.carry
    IN  IF above \/ (tie /\ t % 2 = 1) THEN t + 1 ELSE t

\* what holds the place of a string that formatSize has not made yet
Unformatted == [whole |-> 0, frac |-> <<>>, unit |-> <<>>]

\* formatSize(bytes): the number before the point, the digits after it,
\* and the letters of the unit; indexing past "KMGTPE" panics
formatSize(b) ==
    IF ~GeUnit(b) THEN [whole |-> b[1], frac |-> <<>>, unit |-> <<"B">>]
    ELSE LET exp == FormatExp(b)
             t   == Tenths(ToFloat64(b), exp + 1)
         IN  IF exp + 1 \in DOMAIN UnitLetters
             THEN [whole |-> t \div 10, frac |-> <<t % 10>>,
                   unit |-> <<UnitLetters[exp + 1], "B">>]
             ELSE [whole |-> 0, frac |-> <<>>, unit |-> <<"panic">>]

\* The digits of the byte counts formatSize is run on: the ends of the
\* range of a digit, and digits at and next to the ties of %.1f
SampleDigits == {0, 1, 51, 52, 256, 511, 512, 513, 1023}

\* The digits above the third one: the ends of the range, and the digit of
\* a quarter, where a tie of %.1f lies
HighDigits == {0, 1, 256, 1023}

----------------------------------------------------------------------------
(* findNodeModules *)

\* (a variant of FindWalkFn that returns the error it is called with)
FindWalkFnAbort(t, n) ==
    IF t[n].fault THEN [ret |-> "err", spawn |-> FALSE]
    ELSE IF IsMatch(t, n) THEN [ret |-> "SkipDir", spawn |-> TRUE]
    ELSE [ret |-> "nil", spawn |-> FALSE]

\* (a variant of FindWalkFn that returns nil for a match, so that the walk
\* enters it)
FindWalkFnNoSkip(t, n) ==
    IF t[n].fault THEN [ret |-> "nil", spawn |-> FALSE]
    ELSE IF IsMatch(t, n) THEN [ret |-> "nil", spawn |-> TRUE]
    ELSE [ret |-> "nil", spawn |-> FALSE]

\* The WalkFunc of findNodeModules for node n: what it returns, and whether
\* it spawns a sizing goroutine
FindWalkFn(t, n) ==
    IF t[n].fault THEN [ret |-> "nil", spawn |-> FALSE]
    ELSE IF IsMatch(t, n) THEN [ret |-> "SkipDir", spawn |-> TRUE]
    ELSE [ret |-> "nil", spawn |-> FALSE]

Idle == [pc |-> "none", size |-> 0]

\* One call of the WalkFunc by filepath.Walk
WalkVisit ==
    /\ mainPc = "scan"
    /\ walkPos <= Len(tree)
    /\ LET r == FindWalkFn(tree, walkPos)
       IN  /\ walkPos' = WalkNext(tree, 1, walkPos, r.ret)
           /\ walkErr' = WalkResult(r.ret)
           /\ IF r.spawn
              THEN /\ wg' = wg + 1
                   /\ sizer' = [sizer EXCEPT ![walkPos] =
                                    [pc |-> "calc", size |-> 0]]
              ELSE UNCHANGED <<wg, sizer>>
    /\ UNCHANGED <<mutex, nodeModules>>
    /\ UNCHANGED <<tree, fmtVars, mainVars, poolVars>>

\* (a variant of SizedOk that does not look at err)
SizedAlways(r) == TRUE

\* if err == nil, of the result r of calculateDirSize
SizedOk(r) == r.err = "nil"

\* The goroutine of p: size, err := calculateDirSize(p); if err == nil
SizerCalc(p) ==
    /\ sizer[p].pc = "calc"
    /\ LET r == calculateDirSize(tree, p)
       IN  sizer' = [sizer EXCEPT ![p] =
                        [pc |-> IF SizedOk(r) THEN "lock" ELSE "exit",
                         size |-> r.size]]
    /\ UNCHANGED <<walkPos, walkErr, mutex, wg, nodeModules>>
    /\ UNCHANGED <<tree, fmtVars, mainVars, poolVars>>

\* (a variant of MutexFree for a goroutine that does not lock)
MutexIgnored == TRUE

\* mutex.Lock() can return
MutexFree == mutex = 0

\* mutex.Lock()
SizerLock(p) ==
    /\ sizer[p].pc = "lock"
    /\ MutexFree
    /\ mutex' = p
    /\ sizer' = [sizer EXCEPT ![p].pc = "append"]
    /\ UNCHANGED <<walkPos, walkErr, wg, nodeModules>>
    /\ UNCHANGED <<tree, fmtVars, mainVars, poolVars>>

\* nodeModules = append(nodeModules, Directory{path: p, size: size})
SizerAppend(p) ==
    /\ sizer[p].pc = "append"
    /\ nodeModules' = Append(nodeModules, [path |-> p, size |-> sizer[p].size])
    /\ sizer' = [sizer EXCEPT ![p].pc = "unlock"]
    /\ UNCHANGED <<walkPos, walkErr, mutex, wg>>
    /\ UNCHANGED <<tree, fmtVars, mainVars, poolVars>>

\* mutex.Unlock()
SizerUnlock(p) ==
    /\ sizer[p].pc = "unlock"
    /\ mutex' = 0
    /\ sizer' = [sizer EXCEPT ![p].pc = "exit"]
    /\ UNCHANGED <<walkPos, walkErr, wg, nodeModules>>
    /\ UNCHANGED <<tree, fmtVars, mainVars, poolVars>>

\* the deferred wg.Done()
SizerDone(p) ==
    /\ sizer[p].pc = "exit"
    /\ wg' = wg - 1
    /\ sizer' = [sizer EXCEPT ![p].pc = "done"]
    /\ UNCHANGED <<walkPos, walkErr, mutex, nodeModules>>
    /\ UNCHANGED <<tree, fmtVars, mainVars, poolVars>>

\* (a variant of WaitPasses that does not wait)
WaitSkipped == TRUE

\* wg.Wait() lets findNodeModules go on
WaitPasses == wg = 0

\* filepath.Walk has returned; wg.Wait(); return nodeModules, err
FindReturn ==
    /\ mainPc = "scan"
    /\ walkPos > Len(tree)
    /\ WaitPasses
    /\ dirs' = nodeModules
    /\ err' = walkErr
    /\ mainPc' = "found"
    /\ UNCHANGED <<walkPos, walkErr, sizer, mutex, wg, nodeModules>>
    /\ UNCHANGED <<selectedIndices, confirm, totalSize, msgs, prompts>>
    /\ UNCHANGED <<options, shownTotal, announcedTotal, stderr>>
    /\ UNCHANGED <<tree, fmtVars, poolVars>>

NextFind ==
    \/ WalkVisit
    \/ \E p \in Nodes(tree) : SizerCalc(p)
    \/ \E p \in Nodes(tree) : SizerLock(p)
    \/ \E p \in Nodes(tree) : SizerAppend(p)
    \/ \E p \in Nodes(tree) : SizerUnlock(p)
    \/ \E p \in Nodes(tree) : SizerDone(p)
    \/ FindReturn

\* The state in which main calls findNodeModules on the tree t; formatSize
\* has formatted nothing yet
Start(t) ==
    /\ tree = t
    /\ exists = Nodes(t)
    /\ walkPos = 1
    /\ walkErr = "nil"
    /\ sizer = [n \in Nodes(t) |-> Idle]
    /\ mutex = 0
    /\ wg = 0
    /\ nodeModules = <<>>
    /\ mainPc = "scan"
    /\ dirs = <<>>
    /\ err = "nil"
    /\ selectedIndices = <<>>
    /\ confirm = FALSE
    /\ totalSize = 0
    /\ worker = <<>>
    /\ semaphore = 0
    /\ deleteWg = 0
    /\ attempts = [n \in Nodes(t) |-> 0]
    /\ deletedLines = [n \in Nodes(t) |-> 0]
    /\ errorLines = [n \in Nodes(t) |-> 0]
    /\ msgs = {}
    /\ prompts = 0
    /\ options = <<>>
    /\ shownTotal = Unformatted
    /\ announcedTotal = Unformatted
    /\ deletedSize = [n \in Nodes(t) |-> Unformatted]
    /\ stderr = {}
    /\ bytes = ToInt64(0)
    /\ formatted = Unformatted

\* findNodeModules is called on any well-formed tree of NumNodes nodes
InitFind ==
    \E p \in Shapes(NumNodes) :
        \E k \in [1..NumNodes -> EntryKinds] :
            /\ WellFormed(MkTree(p, k))
            /\ Start(MkTree(p, k))

SpecFind == InitFind /\ [][NextFind]_vars

----------------------------------------------------------------------------
(* The trees of Spec: a root holding NumProjects project directories *)

ProjectKinds == {"plain", "match", "unsizable"}

\* The nodes of a project directory that is node number n:
\*   plain      n/
\*   match      n/  n/node_modules/  n/node_modules/file
\*   unsizable  n/  n/node_modules/  n/node_modules/file
\*              n/node_modules/(an entry that cannot be read)
Project(n, kind) ==
    IF kind = "plain" THEN
        << Node(1, TRUE, "other", FALSE, n) >>
    ELSE IF kind = "match" THEN
        << Node(1, TRUE, "other", FALSE, n),
           Node(n, TRUE, "node_modules", FALSE, n + 1),
           Node(n + 1, FALSE, "other", FALSE, n + 2) >>
    ELSE
        << Node(1, TRUE, "other", FALSE, n),
           Node(n, TRUE, "node_modules", FALSE, n + 1),
           Node(n + 1, FALSE, "other", FALSE, n + 2),
           Node(n + 1, FALSE, "other", TRUE, n + 3) >>

RECURSIVE Grow(_, _, _)
Grow(t, kinds, i) ==
    IF i > Len(kinds) THEN t
    ELSE Grow(t \o Project(Len(t) + 1, kinds[i]), kinds, i + 1)

ProjectTree(kinds) == Grow(<< Node(0, TRUE, "other", FALSE, 1) >>, kinds, 1)

\* The root path names nothing: os.Lstat(root) fails
MissingRoot == << Node(0, FALSE, "other", TRUE, 1) >>

----------------------------------------------------------------------------
(* main *)

Range(f) == {f[i] : i \in DOMAIN f}

RECURSIVE SortedSeq(_)
SortedSeq(S) ==
    IF S = {} THEN <<>>
    ELSE LET m == CHOOSE x \in S : \A y \in S : x <= y
         IN  <<m>> \o SortedSeq(S \ {m})

\* What survey.AskOne(prompt, &selectedIndices) can do: fail, or return the
\* indices of any set of options, in the order of the options
SelectAnswers(n) ==
    {[err |-> "err", indices |-> <<>>]}
       \cup {[err |-> "nil", indices |-> SortedSeq(S)] : S \in SUBSET (1..n)}

\* What survey.AskOne(confirmPrompt, &confirm) can do
ConfirmAnswers ==
    {[err |-> "err", confirm |-> FALSE],
     [err |-> "nil", confirm |-> FALSE],
     [err |-> "nil", confirm |-> TRUE]}

\* (a variant of SumSizes that takes the i-th entry for the i-th index)
RECURSIVE SumSizesByPosition(_, _, _)
SumSizesByPosition(ds, indices, i) ==
    IF i > Len(indices) THEN 0
    ELSE ds[i].size + SumSizesByPosition(ds, indices, i + 1)

\* totalSize += dirs[idx].size, for idx over indices[i..]
RECURSIVE SumSizes(_, _, _)
SumSizes(ds, indices, i) ==
    IF i > Len(indices) THEN 0
    ELSE ds[indices[i]].size + SumSizes(ds, indices, i + 1)

\* main, from the return of findNodeModules to the options of the selection
\* prompt
CheckFound ==
    /\ mainPc = "found"
    /\ IF err # "nil"
       THEN /\ msgs' = msgs \cup {"Error walking directory"}
            /\ mainPc' = "stopped"
            /\ UNCHANGED options
       ELSE IF Len(dirs) = 0
       THEN /\ msgs' = msgs \cup {"No node_modules directories found"}
            /\ mainPc' = "stopped"
            /\ UNCHANGED options
       ELSE /\ msgs' = msgs
            /\ options' = [i \in DOMAIN dirs |->
                              [path |-> dirs[i].path,
                               size |-> formatSize(ToInt64(dirs[i].size))]]
            /\ mainPc' = "select"
    /\ UNCHANGED <<dirs, err, selectedIndices, confirm, totalSize, prompts>>
    /\ UNCHANGED <<shownTotal, announcedTotal, stderr>>
    /\ UNCHANGED <<tree, fmtVars, findVars, poolVars>>

\* the selection prompt and the total of the selected sizes
Select ==
    /\ mainPc = "select"
    /\ prompts' = prompts + 1
    /\ \E ans \in SelectAnswers(Len(dirs)) :
          /\ err' = ans.err
          /\ selectedIndices' = ans.indices
          /\ IF ans.err # "nil"
             THEN /\ msgs' = msgs \cup {"Error during selection"}
                  /\ mainPc' = "stopped"
                  /\ UNCHANGED totalSize
             ELSE IF Len(ans.indices) = 0
             THEN /\ msgs' = msgs \cup {"No directories selected for deletion."}
                  /\ mainPc' = "stopped"
                  /\ UNCHANGED totalSize
             ELSE /\ msgs' = msgs
                  /\ totalSize' = SumSizes(dirs, ans.indices, 1)
                  /\ mainPc' = "confirm"
    /\ UNCHANGED <<dirs, confirm>>
    /\ UNCHANGED <<options, shownTotal, announcedTotal, stderr>>
    /\ UNCHANGED <<tree, fmtVars, findVars, poolVars>>

\* (a variant of Confirmed that does not look at the answer)
ConfirmedUnread(ans) == ans.err = "nil"

\* whether main goes on to delete after the confirmation prompt
Confirmed(ans) == ans.err = "nil" /\ ans.confirm

\* the confirmation prompt
Confirm ==
    /\ mainPc = "confirm"
    /\ prompts' = prompts + 1
    /\ shownTotal' = formatSize(ToInt64(totalSize))
    /\ \E ans \in ConfirmAnswers :
          /\ err' = ans.err
          /\ confirm' = ans.confirm
          /\ IF Confirmed(ans)
             THEN /\ msgs' = msgs \cup {"Deleting directories"}
                  /\ announcedTotal' = formatSize(ToInt64(totalSize))
                  /\ mainPc' = "delete"
             ELSE IF ans.err # "nil"
             THEN /\ msgs' = msgs \cup {"Error during confirmation"}
                  /\ UNCHANGED announcedTotal
                  /\ mainPc' = "stopped"
             ELSE /\ msgs' = msgs \cup {"Operation cancelled."}
                  /\ UNCHANGED announcedTotal
                  /\ mainPc' = "stopped"
    /\ UNCHANGED <<dirs, selectedIndices, totalSize, options, stderr>>
    /\ UNCHANGED <<tree, fmtVars, findVars, poolVars>>

----------------------------------------------------------------------------
(* The deletion stage *)

\* (a variant of WorkerDir that takes the k-th entry)
WorkerDirByPosition(k) == dirs[k]

\* dirs[idx], the argument of the goroutine of the k-th turn of the loop
WorkerDir(k) == dirs[selectedIndices[k]]

\* One turn of the loop over selectedIndices: deleteWg.Add(1); go func(dir)
SpawnWorker ==
    /\ mainPc = "delete"
    /\ Len(worker) < Len(selectedIndices)
    /\ deleteWg' = deleteWg + 1
    /\ worker' = Append(worker,
                        [pc |-> "acquire",
                         dir |-> WorkerDir(Len(worker) + 1)])
    /\ UNCHANGED <<semaphore, attempts, deletedLines, errorLines, exists,
                   deletedSize>>
    /\ UNCHANGED <<tree, fmtVars, findVars, mainVars>>

\* (a variant of CanAcquire for a channel with one more slot)
CanAcquireOneMore == semaphore <= maxConcurrent

\* semaphore <- struct{}{} can send: the channel is not full
CanAcquire == semaphore < maxConcurrent

WorkerAcquire(k) ==
    /\ worker[k].pc = "acquire"
    /\ CanAcquire
    /\ semaphore' = semaphore + 1
    /\ worker' = [worker EXCEPT ![k].pc = "remove"]
    /\ UNCHANGED <<deleteWg, attempts, deletedLines, errorLines, exists,
                   deletedSize>>
    /\ UNCHANGED <<tree, fmtVars, findVars, mainVars>>

\* What os.RemoveAll(path) can leave of the subtree of path: nothing (it
\* returns nil), or any part of it that holds the parent of each node it
\* holds (it removes what it can and returns the first error)
RemoveAllLeaves(t, ex, path) ==
    {left \in SUBSET (Subtree(t, path) \cap ex) :
        \A n \in left : n # path => t[n].parent \in left}

\* (a variant of RemoveFailed that drops the error)
RemoveFailedDropped(left) == FALSE

\* err != nil, of os.RemoveAll that left the nodes left
RemoveFailed(left) == left # {}

\* deleteDirectory(dir) and the line printed for it
WorkerDelete(k) ==
    /\ worker[k].pc = "remove"
    /\ LET path == worker[k].dir.path
       IN  \E left \in RemoveAllLeaves(tree, exists, path) :
              /\ exists' = (exists \ Subtree(tree, path)) \cup left
              /\ attempts' = [attempts EXCEPT ![path] = @ + 1]
              /\ IF RemoveFailed(left)
                 THEN /\ errorLines' = [errorLines EXCEPT ![path] = @ + 1]
                      /\ UNCHANGED <<deletedLines, deletedSize>>
                 ELSE /\ deletedLines' = [deletedLines EXCEPT ![path] = @ + 1]
                      /\ deletedSize' =
                            [deletedSize EXCEPT ![path] =
                                formatSize(ToInt64(worker[k].dir.size))]
                      /\ UNCHANGED errorLines
    /\ worker' = [worker EXCEPT ![k].pc = "release"]
    /\ UNCHANGED <<semaphore, deleteWg>>
    /\ UNCHANGED <<tree, fmtVars, findVars, mainVars>>

\* (a variant of Released for a release that is not deferred, and is
\* skipped when deleteDirectory failed)
ReleasedUnlessFailed(k) ==
    IF errorLines[worker[k].dir.path] > 0 THEN semaphore ELSE semaphore - 1

\* the elements of the channel after worker k received from it
Released(k) == semaphore - 1

\* the deferred <-semaphore
WorkerRelease(k) ==
    /\ worker[k].pc = "release"
    /\ semaphore' = Released(k)
    /\ worker' = [worker EXCEPT ![k].pc = "exit"]
    /\ UNCHANGED <<deleteWg, attempts, deletedLines, errorLines, exists,
                   deletedSize>>
    /\ UNCHANGED <<tree, fmtVars, findVars, mainVars>>

\* the deferred deleteWg.Done()
WorkerDone(k) ==
    /\ worker[k].pc = "exit"
    /\ deleteWg' = deleteWg - 1
    /\ worker' = [worker EXCEPT ![k].pc = "done"]
    /\ UNCHANGED <<semaphore, attempts, deletedLines, errorLines, exists,
                   deletedSize>>
    /\ UNCHANGED <<tree, fmtVars, findVars, mainVars>>

\* (a variant of DeleteWaitPasses that does not wait)
DeleteWaitSkipped == TRUE

\* (a variant of DeleteWaitPasses that gives up at the first failure)
DeleteWaitFirstError == deleteWg = 0 \/ \E n \in Nodes(tree) : errorLines[n] > 0

\* deleteWg.Wait() lets main go on
DeleteWaitPasses == deleteWg = 0

\* the loop is over; deleteWg.Wait(); "Operation completed!"
Complete ==
    /\ mainPc = "delete"
    /\ Len(worker) = Len(selectedIndices)
    /\ DeleteWaitPasses
    /\ msgs' = msgs \cup {"Operation completed!"}
    /\ mainPc' = "done"
    /\ UNCHANGED <<dirs, err, selectedIndices, confirm, totalSize, prompts>>
    /\ UNCHANGED <<options, shownTotal, announcedTotal, stderr>>
    /\ UNCHANGED <<tree, fmtVars, findVars, poolVars>>

Next ==
    \/ NextFind
    \/ CheckFound
    \/ Select
    \/ Confirm
    \/ SpawnWorker
    \/ \E k \in DOMAIN worker : WorkerAcquire(k)
    \/ \E k \in DOMAIN worker : WorkerDelete(k)
    \/ \E k \in DOMAIN worker : WorkerRelease(k)
    \/ \E k \in DOMAIN worker : WorkerDone(k)
    \/ Complete

\* main is run on a root that is missing, or on a root with NumProjects
\* project directories
Init ==
    \/ Start(MissingRoot)
    \/ \E kinds \in [1..NumProjects -> ProjectKinds] : Start(ProjectTree(kinds))

Spec == Init /\ [][Next]_vars

----------------------------------------------------------------------------
(* formatSize on its own *)

\* a call of formatSize(bytes)
FormatCall ==
    /\ formatted = Unformatted
    /\ formatted' = formatSize(bytes)
    /\ UNCHANGED <<tree, findVars, mainVars, poolVars, bytes>>

NextFormat == FormatCall

\* formatSize is about to be called on an int64 that is not negative
InitFormat ==
    /\ \E lo \in [1..3 -> SampleDigits] :
          \E hi \in [1..(NumLimbs - 4) -> HighDigits] :
             \E top \in 0..(Pow2(63 - LimbBits * (NumLimbs - 1)) - 1) :
                bytes = lo \o hi \o <<top>>
    /\ tree = MissingRoot
    /\ exists = Nodes(MissingRoot)
    /\ walkPos = 1
    /\ walkErr = "nil"
    /\ sizer = [n \in Nodes(MissingRoot) |-> Idle]
    /\ mutex = 0
    /\ wg = 0
    /\ nodeModules = <<>>
    /\ mainPc = "scan"
    /\ dirs = <<>>
    /\ err = "nil"
    /\ selectedIndices = <<>>
    /\ confirm = FALSE
    /\ totalSize = 0
    /\ worker = <<>>
    /\ semaphore = 0
    /\ deleteWg = 0
    /\ attempts = [n \in Nodes(MissingRoot) |-> 0]
    /\ deletedLines = [n \in Nodes(MissingRoot) |-> 0]
    /\ errorLines = [n \in Nodes(MissingRoot) |-> 0]
    /\ msgs = {}
    /\ prompts = 0
    /\ options = <<>>
    /\ shownTotal = Unformatted
    /\ announcedTotal = Unformatted
    /\ deletedSize = [n \in Nodes(MissingRoot) |-> Unformatted]
    /\ stderr = {}
    /\ formatted = Unformatted

SpecFormat == InitFormat /\ [][NextFormat]_vars

----------------------------------------------------------------------------
(* Notions the properties are stated with *)

\* the paths main selected for deletion
SelectedPaths == {dirs[selectedIndices[i]].path : i \in DOMAIN selectedIndices}

\* the workers inside deleteDirectory
InRemoval == {k \in DOMAIN worker : worker[k].pc = "remove"}

\* the directories of t named node_modules
Matches(t) == {n \in Nodes(t) : t[n].isDir /\ t[n].name = "node_modules"}

\* no match of t lies inside another
NonOverlapping(t) ==
    \A a, b \in Matches(t) : a # b => ~IsWithin(t, a, b)

\* nothing above, at or under the match m fails to be read
Readable(t, m) ==
    \A n \in Nodes(t) : (IsWithin(t, m, n) \/ IsWithin(t, n, m)) => ~t[n].fault

\* the nodes strictly above n
Ancestors(t, n) == {a \in Nodes(t) : a # n /\ IsWithin(t, a, n)}

\* the matches a walk from the root comes to: nothing above them is a match
\* or fails to be read, and they can be listed
Reached(t) ==
    {m \in Matches(t) :
        /\ ~t[m].fault
        /\ \A a \in Ancestors(t, m) : ~t[a].fault /\ a \notin Matches(t)}

\* nothing at or under p fails to be read
Sizable(t, p) == \A n \in Subtree(t, p) : ~t[n].fault

RECURSIVE SumOf(_, _)
SumOf(t, S) ==
    IF S = {} THEN 0
    ELSE LET n == CHOOSE x \in S : TRUE
         IN  t[n].size + SumOf(t, S \ {n})

\* the bytes of the files at or under p
FileBytes(t, p) == SumOf(t, {n \in Subtree(t, p) : ~t[n].isDir})

Paths(ds) == {ds[i].path : i \in DOMAIN ds}

Lines(n) == deletedLines[n] + errorLines[n]

----------------------------------------------------------------------------
(* Properties *)

\* C1: in every state of the deletion stage, at most maxConcurrent workers
\* are inside deleteDirectory.
ConcurrencyCeiling == Cardinality(InRemoval) <= maxConcurrent

\* the pool is full and a worker waits for a permit
CeilingReached ==
    /\ Cardinality(InRemoval) = maxConcurrent
    /\ \E k \in DOMAIN worker : worker[k].pc = "acquire"

\* C2: whatever is removed, or passed to os.RemoveAll, lies in a discovered
\* directory whose index was selected, after the confirmation prompt
\* returned true without error; a run that stops early has removed
\* nothing, and a run that found no match has asked nothing.
NoUnconfirmedRemoval ==
    /\ \A n \in Nodes(tree) :
          /\ n \notin exists =>
                /\ confirm /\ err = "nil" /\ prompts = 2
                /\ \E q \in SelectedPaths : IsWithin(tree, q, n)
          /\ attempts[n] > 0 =>
                /\ confirm /\ err = "nil" /\ prompts = 2
                /\ n \in SelectedPaths
    /\ SelectedPaths \subseteq Matches(tree)
    /\ mainPc = "stopped" =>
          /\ exists = Nodes(tree)
          /\ worker = <<>>
          /\ \A n \in Nodes(tree) : attempts[n] = 0
    /\ "No node_modules directories found" \in msgs => prompts = 0

\* a selected directory is gone while a discovered one was not selected
RemovedSelectedOnly ==
    /\ \E q \in SelectedPaths : q \notin exists
    /\ Len(selectedIndices) < Len(dirs)

\* C3 as stated: when the stage is over every selected entry has one line,
\* "Deleted" for a path that is gone, "ERROR" for a path that is there with
\* all it held.
OutcomeUntouchedOnFailure ==
    mainPc = "done" =>
        \A q \in SelectedPaths :
            \/ /\ deletedLines[q] = 1 /\ errorLines[q] = 0
               /\ Subtree(tree, q) \cap exists = {}
            \/ /\ errorLines[q] = 1 /\ deletedLines[q] = 0
               /\ Subtree(tree, q) \subseteq exists

\* C3 amended: no entry ever has more than one line, and when the stage is
\* over every selected entry has one line, "Deleted" for a path that is
\* gone with all it held, "ERROR" for a path that is still there (with all
\* or a part of what it held).
OutcomeMatchesDisk ==
    /\ \A n \in Nodes(tree) : Lines(n) <= 1
    /\ mainPc = "done" =>
          \A q \in SelectedPaths :
              \/ /\ deletedLines[q] = 1 /\ errorLines[q] = 0
                 /\ Subtree(tree, q) \cap exists = {}
              \/ /\ errorLines[q] = 1 /\ deletedLines[q] = 0
                 /\ q \in exists

\* the stage is over with a success, and with a failure that removed a
\* part of what the entry held
MixedOutcomes ==
    /\ mainPc = "done"
    /\ \E q \in SelectedPaths : deletedLines[q] = 1 /\ q \notin exists
    /\ \E q \in SelectedPaths :
          /\ errorLines[q] = 1
          /\ q \in exists
          /\ ~(Subtree(tree, q) \subseteq exists)

\* C4: os.RemoveAll is never called twice on an entry, and when the stage
\* is over it has been called once on every selected entry, whichever
\* calls failed.
AllAttemptedOnce ==
    /\ \A n \in Nodes(tree) : attempts[n] <= 1
    /\ mainPc = "done" => \A q \in SelectedPaths : attempts[q] = 1

\* the stage is over, every discovered entry was selected, and all the
\* removals but one failed
AttemptedDespiteFailures ==
    /\ mainPc = "done"
    /\ Len(selectedIndices) = NumProjects
    /\ Cardinality({q \in SelectedPaths : errorLines[q] = 1}) = NumProjects - 1
    /\ \A q \in SelectedPaths : attempts[q] = 1

\* C5: once "Operation completed!" is printed, a worker was spawned for
\* every selected entry, every worker has ended, and every selected entry
\* has its one line (so none is printed later).
DeletionBarrier ==
    "Operation completed!" \in msgs =>
        /\ Len(worker) = Len(selectedIndices)
        /\ \A k \in DOMAIN worker :
              /\ worker[k].pc = "done"
              /\ attempts[worker[k].dir.path] = 1
              /\ Lines(worker[k].dir.path) = 1
        /\ semaphore = 0

\* the completion message follows the end of more workers than the pool
\* holds
CompletedAfterAll ==
    /\ "Operation completed!" \in msgs
    /\ Len(worker) > maxConcurrent

\* C6: once findNodeModules has returned the walk is over, no sizing
\* goroutine runs or holds the mutex, and the list it returned is the
\* shared list, which does not change any more.
FindBarrier ==
    mainPc # "scan" =>
        /\ walkPos > Len(tree)
        /\ \A n \in Nodes(tree) : sizer[n].pc \in {"none", "done"}
        /\ mutex = 0
        /\ wg = 0
        /\ dirs = nodeModules

\* findNodeModules has returned the entries of two goroutines
ReturnedAfterSizers ==
    /\ mainPc = "found"
    /\ Len(dirs) >= 2
    /\ \A i \in DOMAIN dirs : sizer[dirs[i].path].pc = "done"

\* C7 as stated: on a root that cannot be walked findNodeModules returns an
\* error, and main reports the walk error, not that nothing was found.
RootErrorSurfaced ==
    (tree[1].fault /\ mainPc # "scan") =>
        /\ err = "err"
        /\ mainPc = "stopped" =>
              /\ "Error walking directory" \in msgs
              /\ "No node_modules directories found" \notin msgs

\* C8 as stated: on a tree whose matches do not overlap findNodeModules
\* returns as many entries as there are matches.
OnePerMatch ==
    (mainPc # "scan" /\ NonOverlapping(tree)) =>
        Len(dirs) = Cardinality(Matches(tree))

\* C8 amended: on a tree whose matches do not overlap and in which nothing
\* above, at or under a match fails to be read, findNodeModules returns as
\* many entries as there are matches, one per match.
OnePerReadableMatch ==
    (/\ mainPc # "scan"
     /\ NonOverlapping(tree)
     /\ \A m \in Matches(tree) : Readable(tree, m)) =>
        /\ Len(dirs) = Cardinality(Matches(tree))
        /\ Paths(dirs) = Matches(tree)

\* findNodeModules has returned the two matches of a tree that also holds
\* a file named node_modules
TwoMatchesReturned ==
    /\ mainPc = "found"
    /\ NonOverlapping(tree)
    /\ \A m \in Matches(tree) : Readable(tree, m)
    /\ Cardinality(Matches(tree)) = 2
    /\ Len(dirs) = 2
    /\ \E n \in Nodes(tree) : ~tree[n].isDir /\ tree[n].name = "node_modules"

\* C9: the walk is never inside a directory it spawned a goroutine for, and
\* no path of the result list lies at or under the path of another entry of
\* the list.
NoNestedResults ==
    /\ \A n \in Nodes(tree) :
          sizer[n].pc # "none" => ~(n < walkPos /\ walkPos < SkipPast(tree, n))
    /\ \A i, j \in DOMAIN nodeModules :
          i # j => ~IsWithin(tree, nodeModules[i].path, nodeModules[j].path)

\* findNodeModules has returned the outer one of two nested matches
NestedMatchPruned ==
    /\ mainPc = "found"
    /\ \E a, b \in Matches(tree) :
          /\ a # b /\ IsWithin(tree, a, b)
          /\ Sizable(tree, a)
          /\ a \in Paths(dirs)
          /\ b \notin Paths(dirs)

\* C10: every entry of the result list is a match that was sized without
\* error and carries the bytes of all the files under it; and the list
\* findNodeModules returns holds all the matches the walk came to that can
\* be sized, and none of those that cannot.
SizeFailureLocal ==
    /\ \A i \in DOMAIN nodeModules :
          /\ Sizable(tree, nodeModules[i].path)
          /\ nodeModules[i].size = FileBytes(tree, nodeModules[i].path)
    /\ mainPc # "scan" =>
          Paths(dirs) = {m \in Reached(tree) : Sizable(tree, m)}

\* findNodeModules has returned a match while the sizing of another failed
FailedSizeOmitted ==
    /\ mainPc = "found"
    /\ \E m \in Reached(tree) :
          /\ ~Sizable(tree, m)
          /\ sizer[m].pc = "done"
          /\ m \notin Paths(dirs)
    /\ Len(dirs) >= 1

\* C11: an entry below the root that cannot be read does not end the walk:
\* filepath.Walk returns no error, a goroutine is spawned for the matches
\* the walk comes to and for no other node, and findNodeModules returns
\* every match that lies in no other match and has nothing above, at or
\* under it that fails to be read.
WalkErrorSkipsBranch ==
    /\ walkErr = "nil"
    /\ \A n \in Nodes(tree) : sizer[n].pc # "none" => n \in Reached(tree)
    /\ walkPos > Len(tree) =>
          \A m \in Reached(tree) : sizer[m].pc # "none"
    /\ mainPc # "scan" =>
          \A m \in Matches(tree) :
              (Readable(tree, m) /\ Ancestors(tree, m) \cap Matches(tree) = {})
                 => m \in Paths(dirs)

\* findNodeModules has returned a match that the walk came to after a
\* directory below the root that it could not list
MatchAfterUnreadableBranch ==
    /\ mainPc = "found"
    /\ \E x, m \in Nodes(tree) :
          /\ 1 < x /\ x < m
          /\ tree[x].fault /\ tree[x].isDir
          /\ \A a \in Ancestors(tree, x) : ~tree[a].fault /\ a \notin Matches(tree)
          /\ m \in Paths(dirs)

\* the sizes of the selected entries as they were at discovery, summed
DiscoveryTotal == SumOf(tree, UNION {{n \in Subtree(tree, q) : ~tree[n].isDir} :
                                        q \in SelectedPaths})

\* C12: the total of the confirmation prompt is the sum of the sizes the
\* selected entries had at discovery, the line "Deleting directories"
\* carries the same total, and the size of every option and of every
\* "Deleted" line is the size the entry had at discovery, whatever the disk
\* holds by then.
TotalIsSelectedSum ==
    /\ shownTotal # Unformatted =>
          /\ totalSize = DiscoveryTotal
          /\ shownTotal = formatSize(ToInt64(DiscoveryTotal))
    /\ announcedTotal # Unformatted => announcedTotal = shownTotal
    /\ \A i \in DOMAIN options :
          /\ options[i].path = dirs[i].path
          /\ options[i].size =
                formatSize(ToInt64(FileBytes(tree, dirs[i].path)))
    /\ \A n \in Nodes(tree) :
          deletedLines[n] > 0 =>
             \E i \in DOMAIN options :
                 /\ options[i].path = n
                 /\ deletedSize[n] = options[i].size

\* the run has deleted two of three or more entries, the second and a later
\* one, has shown and announced one total of a kilobyte or more, and the
\* deleted entries, gone from the disk, are reported with their sizes
TotalOfTwoDeleted ==
    /\ mainPc = "done"
    /\ Len(selectedIndices) = 2
    /\ 1 \notin Range(selectedIndices)
    /\ Len(dirs) >= 3
    /\ announcedTotal = shownTotal
    /\ shownTotal.unit = <<"K", "B">>
    /\ \A q \in SelectedPaths :
          /\ Subtree(tree, q) \cap exists = {}
          /\ deletedLines[q] = 1
          /\ deletedSize[q] # formatSize(ToInt64(0))

\* C13: whatever the stage of the run, a node of the disk is gone only if
\* it lies in a selected entry the run was told to delete: every entry that
\* was found and not selected is whole, with all that it holds, every
\* directory above a match is there, and no removal was attempted on them.
FrameOutsideSelection ==
    /\ \A i \in DOMAIN dirs :
          i \notin Range(selectedIndices) =>
             /\ Subtree(tree, dirs[i].path) \subseteq exists
             /\ attempts[dirs[i].path] = 0
    /\ \A m \in Matches(tree) :
          \A a \in Ancestors(tree, m) : a \in exists /\ attempts[a] = 0
    /\ \A n \in Nodes(tree) :
          (\A q \in SelectedPaths : ~IsWithin(tree, q, n)) => n \in exists

\* the run is over, a selected entry that is not the first is gone, and an
\* entry before it that was not selected, and the directories above both,
\* are still there
UnselectedLeftWhole ==
    /\ mainPc = "done"
    /\ \E i, j \in DOMAIN dirs :
          /\ i < j
          /\ i \notin Range(selectedIndices)
          /\ j \in Range(selectedIndices)
          /\ dirs[j].path \notin exists
          /\ tree[dirs[j].path].parent \in exists
          /\ Subtree(tree, dirs[i].path) \subseteq exists

\* C14: when nothing at or under a match fails to be read, the size its
\* goroutine has computed is the sum of the sizes of the files under it:
\* the directories add nothing, and a match that holds no file has size 0.
SizeIsSumOfFiles ==
    \A n \in Nodes(tree) :
        (sizer[n].pc \notin {"none", "calc"} /\ Sizable(tree, n)) =>
           /\ sizer[n].size = FileBytes(tree, n)
           /\ (\A x \in Subtree(tree, n) : tree[x].isDir) => sizer[n].size = 0

\* a match that holds a directory, empty or not, and a file was sized with
\* the bytes of the file alone
DirectoriesAddNothing ==
    \E n \in Nodes(tree) :
        /\ sizer[n].pc = "done" /\ Sizable(tree, n)
        /\ \E d, f \in Subtree(tree, n) :
              d # n /\ tree[d].isDir /\ ~tree[f].isDir
        /\ sizer[n].size > 0
        /\ sizer[n].size < SumOf(tree, Subtree(tree, n))

\* Numbers too large for an int64, as digits in base unit, the least one
\* first, the last one as large as it needs to be
RECURSIVE Norm(_, _, _)
Norm(x, i, carry) ==
    IF i > Len(x) THEN <<>>
    ELSE IF i = Len(x) THEN <<x[i] + carry>>
    ELSE <<(x[i] + carry) % unit>> \o Norm(x, i + 1, (x[i] + carry) \div unit)

\* 20 * b + add
Twenty(b, add) ==
    Norm([i \in 1..(NumLimbs + 1) |->
             IF i > NumLimbs THEN 0
             ELSE 20 * b[i] + (IF i = 1 THEN add ELSE 0)], 1, 0)

\* m * unit^k + add, for k >= 1
AtUnit(m, k, add) ==
    Norm([i \in 1..(NumLimbs + 1) |->
             IF i = k + 1 THEN m ELSE IF i = 1 THEN add ELSE 0], 1, 0)

\* x <= y, from digit i down
RECURSIVE Leq(_, _, _)
Leq(x, y, i) ==
    IF i = 0 THEN TRUE
    ELSE IF x[i] # y[i] THEN x[i] < y[i]
    ELSE Leq(x, y, i - 1)

\* the k with unit^k <= b < unit^(k+1), for b >= unit
Magnitude(b) == TopIndex(b) - 1

\* the tenths a string of formatSize shows
ShownTenths(f) == 10 * f.whole + f.frac[1]

\* the number f shows is b / unit^k to the nearest tenth, give or take slack
\* twentieths of a byte: |20 * b - 2 * tenths * unit^k| <= unit^k + slack
NearestTenth(f, b, k, slack) ==
    /\ Leq(AtUnit(2 * ShownTenths(f) - 1, k, 0), Twenty(b, slack), NumLimbs + 1)
    /\ Leq(Twenty(b, 0), AtUnit(2 * ShownTenths(f) + 1, k, slack), NumLimbs + 1)

\* f is the count b, no point, and "B"; or a number with one digit after
\* the point, the letter of the magnitude of b, and "B"
WellUnited(f, b) ==
    IF ~GeUnit(b) THEN f = [whole |-> b[1], frac |-> <<>>, unit |-> <<"B">>]
    ELSE /\ Len(f.frac) = 1 /\ f.frac[1] \in 0..9 /\ f.whole >= 1
         /\ Magnitude(b) \in 1..6
         /\ f.unit = <<<<"K", "M", "G", "T", "P", "E">>[Magnitude(b)], "B">>

\* format(0), format(1023), format(1024), format(1536), format(1024*1024)
FormatExamples ==
    /\ bytes = ToInt64(0) =>
          formatted = [whole |-> 0, frac |-> <<>>, unit |-> <<"B">>]
    /\ bytes = ToInt64(1023) =>
          formatted = [whole |-> 1023, frac |-> <<>>, unit |-> <<"B">>]
    /\ bytes = ToInt64(1024) =>
          formatted = [whole |-> 1, frac |-> <<0>>, unit |-> <<"K", "B">>]
    /\ bytes = ToInt64(1536) =>
          formatted = [whole |-> 1, frac |-> <<5>>, unit |-> <<"K", "B">>]
    /\ bytes = ToInt64(1024 * 1024) =>
          formatted = [whole |-> 1, frac |-> <<0>>, unit |-> <<"M", "B">>]

\* C15, as stated: the string of formatSize is the count and "B" below
\* 1024, and from 1024 on it is bytes / 1024^k to the nearest tenth, with
\* one digit after the point, the k-th letter of KMGTPE and "B".
FormatIsQuotient ==
    formatted # Unformatted =>
       /\ WellUnited(formatted, bytes)
       /\ GeUnit(bytes) =>
             NearestTenth(formatted, bytes, Magnitude(bytes), 0)
       /\ FormatExamples

\* twenty times half the step between the float64 next to b: nothing when
\* b has no more bits than a mantissa
HalfStep(b) ==
    IF Bits(b) <= Mantissa THEN 0 ELSE 10 * Pow2(Bits(b) - Mantissa)

\* C15: the string of formatSize is the count and "B" below 1024; from 1024
\* on it has one digit after the point, the k-th letter of KMGTPE and "B",
\* and its number is the nearest tenth of bytes / 1024^k for a count of at
\* most 53 bits, and of the quotient of a count no more than half a float64
\* step away from bytes for a larger one; the five examples read as given.
FormatIsFloatQuotient ==
    formatted # Unformatted =>
       /\ WellUnited(formatted, bytes)
       /\ GeUnit(bytes) =>
             NearestTenth(formatted, bytes, Magnitude(bytes), HalfStep(bytes))
       /\ FormatExamples

\* formatSize has formatted a count of more than 53 bits, and the tenth it
\* shows is not the nearest one to bytes / 1024^k
TenthOfRoundedCount ==
    /\ formatted # Unformatted
    /\ Bits(bytes) > Mantissa
    /\ formatted.unit \in {<<"P", "B">>, <<"E", "B">>}
    /\ ~NearestTenth(formatted, bytes, Magnitude(bytes), 0)

\* the lines of main that report an error, those of a failed deletion apart
ErrorTexts ==
    {"Error walking directory", "Error during selection",
     "Error during confirmation"}

\* C16: every error line is on standard error and none is on standard
\* output: the lines of a walk, selection or confirmation error, and the
\* "ERROR" line of every entry whose deletion failed.
ErrorLinesOnStderr ==
    /\ msgs \cap ErrorTexts = {}
    /\ \A n \in Nodes(tree) : errorLines[n] > 0 => <<"ERROR", n>> \in stderr

\* what a worker of the pool holds of the semaphore, by its place
Holders == {k \in DOMAIN worker : worker[k].pc \in {"remove", "release"}}

\* C17 (no leak): the elements of the semaphore are the workers between
\* their acquire and their deferred release, whether deleteDirectory has
\* failed or not; a worker past its release holds nothing; and when main is
\* past deleteWg.Wait() the semaphore is empty.
PermitsNotLeaked ==
    /\ semaphore = Cardinality(Holders)
    /\ semaphore \in 0..maxConcurrent
    /\ mainPc = "done" =>
          /\ semaphore = 0
          /\ \A k \in DOMAIN worker : worker[k].pc = "done"
          /\ Len(worker) = Len(selectedIndices)

\* the steps worker k has yet to take
StepsLeft(k) ==
    CASE worker[k].pc = "acquire" -> 4
      [] worker[k].pc = "remove"  -> 3
      [] worker[k].pc = "release" -> 2
      [] worker[k].pc = "exit"    -> 1
      [] OTHER                    -> 0

RECURSIVE StepsLeftFrom(_)
StepsLeftFrom(k) ==
    IF k > Len(worker) THEN 0 ELSE StepsLeft(k) + StepsLeftFrom(k + 1)

\* the steps the deletion stage has yet to take: those of the goroutines
\* that run, those of the goroutines to come with their "go", and the
\* return of deleteWg.Wait()
StageLeft ==
    IF mainPc # "delete" THEN 0
    ELSE 1 + StepsLeftFrom(1) + 5 * (Len(selectedIndices) - Len(worker))

\* the deletion stage is not stuck: a step can be taken as long as main is
\* in it, and a worker that waits for a permit when none is free waits for
\* a worker that holds one and can go on to release it
NoStall ==
    /\ mainPc = "delete" =>
          \/ ENABLED SpawnWorker
          \/ ENABLED Complete
          \/ \E k \in DOMAIN worker :
                \/ ENABLED WorkerAcquire(k) \/ ENABLED WorkerDelete(k)
                \/ ENABLED WorkerRelease(k) \/ ENABLED WorkerDone(k)
    /\ \A k \in DOMAIN worker :
          worker[k].pc = "acquire" =>
             \/ ENABLED WorkerAcquire(k)
             \/ \E h \in Holders :
                   ENABLED WorkerDelete(h) \/ ENABLED WorkerRelease(h)

\* C17: no permit is leaked and the deletion stage ends, for any selection
\* and any failures of the removals: the stage is never stuck, a waiting
\* worker always has a permit to take or a holder on its way to release
\* one, and every step of the stage leaves fewer steps to take; so under
\* fair scheduling, with removals that return, every waiting worker
\* acquires a permit and the stage reaches its barrier, where all the
\* permits are free.
DeletionTerminates ==
    /\ []PermitsNotLeaked
    /\ []NoStall
    /\ [][mainPc = "delete" => (StageLeft' < StageLeft /\ StageLeft' >= 0)]_vars

\* the run is over, more entries were selected than there are permits, a
\* deletion has failed and one has succeeded, and no permit is held
AllPermitsFreeAtBarrier ==
    /\ mainPc = "done"
    /\ Len(selectedIndices) > maxConcurrent
    /\ \E n \in Nodes(tree) : errorLines[n] > 0
    /\ \E n \in Nodes(tree) : deletedLines[n] > 0
    /\ semaphore = 0

\* the goroutines between mutex.Lock() and mutex.Unlock()
InCritical == {n \in Nodes(tree) : sizer[n].pc \in {"append", "unlock"}}

\* the goroutines whose append is done
Appended ==
    {n \in Nodes(tree) :
        \/ sizer[n].pc = "unlock"
        \/ sizer[n].pc \in {"exit", "done"} /\ Sizable(tree, n)}

\* C18: at most one goroutine is between mutex.Lock() and mutex.Unlock(),
\* and it is the one that holds the mutex; a goroutine that computes its
\* size or has not passed Lock holds nothing; the list holds one entry for
\* each goroutine that has appended and no other, so no append is lost;
\* and the list that findNodeModules returns holds one entry, and only one,
\* for each match that was sized without an error.
AppendsExclusive ==
    /\ Cardinality(InCritical) <= 1
    /\ \A n \in Nodes(tree) : mutex = n <=> n \in InCritical
    /\ mutex = 0 <=> InCritical = {}
    /\ \A n \in Nodes(tree) : sizer[n].pc \in {"calc", "lock"} => mutex # n
    /\ Paths(nodeModules) = Appended
    /\ Len(nodeModules) = Cardinality(Appended)
    /\ mainPc # "scan" =>
          /\ Len(dirs) = Cardinality(Paths(dirs))
          /\ Paths(dirs) = {n \in Nodes(tree) :
                               sizer[n].pc = "done" /\ Sizable(tree, n)}

\* one goroutine holds the mutex, its append done, while another that was
\* spawned before it waits at Lock, and the list holds the entry of the
\* first alone
WaitsForMutex ==
    \E a, b \in Nodes(tree) :
        /\ b < a
        /\ sizer[a].pc = "unlock" /\ mutex = a
        /\ sizer[b].pc = "lock"
        /\ Paths(nodeModules) = {a}

\* C19: for every int64 that is not negative, the index into "KMGTPE" is
\* one of 0..5, so the string is made and no index is out of range; the
\* counts of 1024^6 bytes and more, up to the largest, are given in EB.
UnitIndexInRange ==
    /\ IsInt64(bytes)
    /\ GeUnit(bytes) =>
          /\ FormatExp(bytes) \in 0..5
          /\ FormatExp(bytes) + 1 \in DOMAIN UnitLetters
          /\ FormatExp(bytes) + 1 = Magnitude(bytes)
    /\ formatted # Unformatted =>
          /\ formatted.unit # <<"panic">>
          /\ Len(formatted.unit) \in 1..2
          /\ bytes[NumLimbs] > 0 => formatted.unit = <<"E", "B">>

\* the largest int64, 2^63 - 1, was formatted as 8.0 EB
LargestIsExabytes ==
    /\ \A i \in 1..(NumLimbs - 1) : bytes[i] = unit - 1
    /\ bytes[NumLimbs] = Pow2(63 - LimbBits * (NumLimbs - 1)) - 1
    /\ formatted = [whole |-> 8, frac |-> <<0>>, unit |-> <<"E", "B">>]

====
